---- MODULE Spec2Model ----
(***************************************************************************)
(* Genesis construction of go-lotus (package gen): MakeGenesisBlock and    *)
(* everything it calls, as one sequential state machine.  Every fallible   *)
(* call (blockstore put/get, state-tree access, engine call) either        *)
(* succeeds or returns its error.  Content identifiers are modelled by the *)
(* content they identify (identical content, identical identifier).        *)
(***************************************************************************)
EXTENDS Integers, Sequences, FiniteSets, TLC

(***************************************************************************)
(* Bounds of the model.                                                    *)
(***************************************************************************)
\* build.TotalFilecoin, scaled down to a handful of units
TotalFilecoin == 3
\* longest owners / workers / peer-ID list of a miner configuration
MaxMiners == 2

(***************************************************************************)
(* Program constants.                                                      *)
(***************************************************************************)
\* first ID handed out by the init actor (ias.NextID = 100)
ReservedOffset == 100
\* fixed storage delta and fixed bootstrap power (types.NewInt(5000))
BootstrapPower == 5000

\* the well-known actor addresses of package actors
InitActorAddress == "t00"
NetworkAddress == "t01"
StorageMarketAddress == "t02"
BurntFundsAddress == "t099"

InitActorCodeCid == "init"
AccountActorCodeCid == "account"
StorageMarketActorCodeCid == "market"
StorageMinerCodeCid == "miner"

\* ID addresses the init actor can hand out, by ID - ReservedOffset + 1
IDNames == <<"t0100", "t0101", "t0102", "t0103", "t0104", "t0105", "t0106", "t0107">>
IDAddress(id) == IDNames[id - ReservedOffset + 1]

(***************************************************************************)
(* Inputs: the balances map, the miner configuration, the timestamp.       *)
(***************************************************************************)
\* addresses a balance may be configured for (one of them a reserved one)
Accounts == {"A", "B", NetworkAddress}
Amounts == {-1, 1, TotalFilecoin}
\* the amounts tried for each address: a negative one for "A" only
AmountsOf(a) == IF a = "A" THEN Amounts
                ELSE IF a = "B" THEN Amounts \ {-1}
                ELSE {1}
OwnerChoices == {"A", "B"}
WorkerChoices == {"W"}
PeerChoices == {"P"}
Timestamps == {7, 8}

SeqsUpTo(S, n) == UNION {[1..k -> S] : k \in 0..n}
BalanceMaps == UNION {{m \in [S -> Amounts] : \A a \in S : m[a] \in AmountsOf(a)} : S \in SUBSET Accounts}
MinerCfgs == [Owners : SeqsUpTo(OwnerChoices, MaxMiners),
              Workers : SeqsUpTo(WorkerChoices, MaxMiners),
              PeerIDs : SeqsUpTo(PeerChoices, MaxMiners),
              MinerAddrs : {<<>>}]

(***************************************************************************)
(* The watch-head flags of the health agent.                               *)
(***************************************************************************)
DefaultThreshold == 3
DefaultInterval == 45
\* checkWindow has not received a window yet
NoCheck == [window |-> <<>>, t |-> 0, ok |-> "true", n |-> 0]

(***************************************************************************)
(* Data model.                                                             *)
(***************************************************************************)
NoMap == [a \in {} |-> 0]

\* an actor's state body; one record shape for every kind of body
NoBody == [kind |-> "none", NextID |-> 0, AddressMap |-> NoMap,
           Miners |-> {}, TotalStorage |-> 0,
           Owner |-> "", Worker |-> "", PeerID |-> "", Power |-> 0]
\* cst.Put(map[string]string{})
EmptyObject == [NoBody EXCEPT !.kind = "empty"]
\* a HAMT node holding the given key/value pairs
HamtNode(m) == [NoBody EXCEPT !.kind = "hamt", !.AddressMap = m]
\* actors.InitActorState
InitActorState(nextID, amap) ==
    [NoBody EXCEPT !.kind = "init", !.NextID = nextID, !.AddressMap = amap]
\* actors.StorageMarketState
StorageMarketState(miners, total) ==
    [NoBody EXCEPT !.kind = "market", !.Miners = miners, !.TotalStorage = total]
\* actors.StorageMinerActorState
StorageMinerActorState(owner, worker, pid, power) ==
    [NoBody EXCEPT !.kind = "miner", !.Owner = owner, !.Worker = worker,
                   !.PeerID = pid, !.Power = power]
\* the empty sharray root
EmptyRoot == [NoBody EXCEPT !.kind = "sharray"]

\* types.Actor
Actor(code, head, nonce, balance) ==
    [Code |-> code, Head |-> head, Nonce |-> nonce, Balance |-> balance]

NoTree == [a \in {} |-> Actor("", NoBody, 0, 0)]
\* cid.Undef, and the root of a flushed state tree
Undef == [def |-> FALSE, tree |-> NoTree]
RootOf(st) == [def |-> TRUE, tree |-> st]

\* types.MsgMeta
MsgMeta(bls, secpk) == [BlsMessages |-> bls, SecpkMessages |-> secpk]
NoMeta == MsgMeta(NoBody, NoBody)

\* types.BlockHeader (the ticket, proof and signature placeholders are fixed bytes)
BlockHeader(miner, root, msgs, receipts, t) ==
    [Miner |-> miner, Parents |-> <<>>, Height |-> 0, ParentWeight |-> 0,
     StateRoot |-> root, Messages |-> msgs, MessageReceipts |-> receipts,
     Timestamp |-> t]
NoHeader == BlockHeader("", Undef, NoMeta, NoBody, 0)
NoResult == [ok |-> FALSE, Genesis |-> NoHeader]

EmptyBlockstore == [objs |-> {}, trees |-> {}, metas |-> {}, headers |-> {}]

VARIABLES
    balances,    \* MakeGenesisBlock's balances argument
    gmcfg,       \* MakeGenesisBlock's *GenMinerCfg argument
    ts,          \* MakeGenesisBlock's timestamp argument
    pc,          \* position in MakeGenesisBlock and its callees
    bs,          \* the blockstore
    addrs,       \* MakeInitialStateTree's addrs slice
    state,       \* MakeInitialStateTree's state tree
    stateroot,   \* MakeGenesisBlock's stateroot
    vmst,        \* the state tree of SetupStorageMiners' vm
    vmbuf,       \* objects the vm has written and not yet flushed
    i,           \* SetupStorageMiners' loop index
    maddr,       \* SetupStorageMiners' maddr
    calls,       \* number of messages handed to the engine so far
    exitcode,    \* exit code of the last receipt the engine returned
    sent,        \* sender and nonce of the last message handed to the engine
    flushes,     \* number of vm.Flush calls that have succeeded
    given,       \* the miner configuration as the caller passed it
    givenbal,    \* the balances as the caller passed them
    err,         \* the error MakeGenesisBlock returns ("" : none)
    result,      \* the *GenesisBootstrap MakeGenesisBlock returns
    first,       \* result of an earlier run on the same inputs
    \* the watch-head command of the health agent
    threshold,         \* the --threshold flag
    interval,          \* the --interval flag
    headCheckWindow,   \* the window the polling goroutine keeps
    ch,                \* the buffered channel of windows (capacity 1)
    aCh,               \* the buffered alert channel (capacity 1)
    hpc,               \* position of the action's loop, the poller and the alert handler
    polled,            \* every chain head polled so far, oldest first
    checked,           \* the last window checkWindow received, and its verdict
    restarted          \* the systemd unit has been restarted

\* the variables of the genesis construction, and those of the health agent
gvars == <<balances, gmcfg, ts, pc, bs, addrs, state, stateroot, vmst, vmbuf,
           i, maddr, calls, exitcode, sent, flushes, given, givenbal, err, result, first>>
hvars == <<threshold, interval, headCheckWindow, ch, aCh, hpc, polled, checked, restarted>>
vars == <<gvars, hvars>>

(***************************************************************************)
(* Collaborators outside this file: the blockstore / CBOR store, the HAMT, *)
(* and the state tree (chain/state).                                       *)
(***************************************************************************)
\* cst.Put / bs.Put of a state body or node
Put(store, obj) == [store EXCEPT !.objs = @ \cup {obj}]
\* cst.Get: an object can be read only if it was put
Has(store, obj) == obj \in store.objs

\* hamt Node.Set
HamtSet(m, k, v) == [x \in DOMAIN m \cup {k} |-> IF x = k THEN v ELSE m[x]]

\* StateTree.SetActor: the record under an address is replaced
SetActor(st, a, act) == [x \in DOMAIN st \cup {a} |-> IF x = a THEN act ELSE st[x]]
\* StateTree.GetActor succeeds exactly for the addresses present
HasActor(st, a) == a \in DOMAIN st

\* every order in which a range over a map with key set S can visit the keys
RangeOrders(S) ==
    {s \in [1..Cardinality(S) -> S] : \A m, n \in DOMAIN s : m # n => s[m] # s[n]}

RECURSIVE SumOver(_, _)
SumOver(m, S) ==
    IF S = {} THEN 0
    ELSE LET a == CHOOSE x \in S : TRUE IN m[a] + SumOver(m, S \ {a})

\* no message has been handed to the engine yet
NoMessage == [From |-> "", Nonce |-> 0]

\* the way MakeGenesisBlock and its callees return an error
Abort(e) == pc' = "error" /\ err' = e /\ result' = NoResult

(***************************************************************************)
(* SetupInitActor (pure part): the address map and the init actor state.   *)
(***************************************************************************)
RECURSIVE AmapSetFrom(_, _, _)
\* the loop "for i, a := range addrs { amap.Set(a, 100+i) }", from index i0
AmapSetFrom(amap, as, i0) ==
    IF i0 >= Len(as) THEN amap
    ELSE AmapSetFrom(HamtSet(amap, as[i0 + 1], ReservedOffset + i0), as, i0 + 1)

\* SetupInitActor without "ias.NextID += uint64(len(addrs))"
SetupInitActorNoAdvance(as) ==
    LET amap == AmapSetFrom(NoMap, as, 0)
        ias == InitActorState(ReservedOffset, amap)
    IN [amap |-> HamtNode(amap),
        ias |-> ias,
        act |-> Actor(InitActorCodeCid, ias, 0, 0)]

SetupInitActor(as) ==
    LET amap == AmapSetFrom(NoMap, as, 0)
        ias == InitActorState(ReservedOffset + Len(as), amap)
    IN [amap |-> HamtNode(amap),
        ias |-> ias,
        act |-> Actor(InitActorCodeCid, ias, 0, 0)]

\* SetupStorageMarketActor (pure part)
SetupStorageMarketActor ==
    LET sms == StorageMarketState({}, 0)
    IN [emptyhamt |-> HamtNode(NoMap),
        sms |-> sms,
        act |-> Actor(StorageMarketActorCodeCid, sms, 0, 0)]

\* netAmt := TotalFilecoin - sum of the configured balances
NetAmt(actmap) == TotalFilecoin - SumOver(actmap, DOMAIN actmap)

RECURSIVE SetAccounts(_, _, _)
\* the loop "for a, v := range actmap { state.SetActor(a, account(v)) }" over keys S
SetAccounts(st, actmap, S) ==
    IF S = {} THEN st
    ELSE LET a == CHOOSE x \in S : TRUE
         IN SetAccounts(SetActor(st, a, Actor(AccountActorCodeCid, EmptyObject, 0, actmap[a])),
                        actmap, S \ {a})

(***************************************************************************)
(* MakeInitialStateTree, step by step.                                     *)
(***************************************************************************)
MISTLocals == <<balances, gmcfg, ts, stateroot, vmst, vmbuf, i, maddr, calls, exitcode, sent, given, givenbal, first, flushes, hvars>>

\* lines 300-309: new state tree, put of the empty object
MIST_EmptyObject ==
    /\ pc = "start"
    /\ \E outcome \in {"ok", "making new state tree", "failed putting empty object"} :
         IF outcome = "ok"
         THEN /\ bs' = Put(bs, EmptyObject)
              /\ pc' = "addrs"
              /\ UNCHANGED <<err, result>>
         ELSE /\ bs' = bs
              /\ Abort(outcome)
    /\ UNCHANGED <<addrs, state>>
    /\ UNCHANGED MISTLocals

\* lines 311-314: the keys of the balances map, in the order the range yields them
MIST_CollectAddrs ==
    /\ pc = "addrs"
    /\ \E order \in RangeOrders(DOMAIN balances) : addrs' = order
    /\ pc' = "initactor"
    /\ UNCHANGED <<bs, state, err, result>>
    /\ UNCHANGED MISTLocals

\* lines 316-323 with 262-297: SetupInitActor and SetActor of the init actor
MIST_InitActor ==
    /\ pc = "initactor"
    /\ LET r == SetupInitActor(addrs) IN
       \E outcome \in {"ok", "amap.Set", "amap.Flush", "put amap", "put ias", "set init actor"} :
         CASE outcome = "ok" ->
                /\ bs' = Put(Put(bs, r.amap), r.ias)
                /\ state' = SetActor(state, InitActorAddress, r.act)
                /\ pc' = "marketactor"
                /\ UNCHANGED <<err, result>>
           [] outcome \in {"amap.Set", "amap.Flush", "put amap"} ->
                /\ bs' = bs /\ state' = state
                /\ Abort("setup init actor")
           [] outcome = "put ias" ->
                /\ bs' = Put(bs, r.amap) /\ state' = state
                /\ Abort("setup init actor")
           [] outcome = "set init actor" ->
                /\ bs' = Put(Put(bs, r.amap), r.ias) /\ state' = state
                /\ Abort("set init actor")
    /\ UNCHANGED addrs
    /\ UNCHANGED MISTLocals

\* lines 325-332 with 371-395: SetupStorageMarketActor and its SetActor
MIST_StorageMarketActor ==
    /\ pc = "marketactor"
    /\ LET r == SetupStorageMarketActor IN
       \E outcome \in {"ok", "put emptyhamt", "put sms", "set storage market actor"} :
         CASE outcome = "ok" ->
                /\ bs' = Put(Put(bs, r.emptyhamt), r.sms)
                /\ state' = SetActor(state, StorageMarketAddress, r.act)
                /\ pc' = "networkactor"
                /\ UNCHANGED <<err, result>>
           [] outcome = "put emptyhamt" ->
                /\ bs' = bs /\ state' = state
                /\ Abort("setup storage market actor")
           [] outcome = "put sms" ->
                /\ bs' = Put(bs, r.emptyhamt) /\ state' = state
                /\ Abort("setup storage market actor")
           [] outcome = "set storage market actor" ->
                /\ bs' = Put(Put(bs, r.emptyhamt), r.sms) /\ state' = state
                /\ Abort("set storage market actor")
    /\ UNCHANGED addrs
    /\ UNCHANGED MISTLocals

\* lines 334-346: the network actor holds what the balances leave of the supply
MIST_NetworkActor ==
    /\ pc = "networkactor"
    /\ \E ok \in BOOLEAN :
         IF ok
         THEN /\ state' = SetActor(state, NetworkAddress,
                                   Actor(AccountActorCodeCid, EmptyObject, 0, NetAmt(balances)))
              /\ pc' = "burntactor"
              /\ UNCHANGED <<err, result>>
         ELSE /\ state' = state
              /\ Abort("set network account actor")
    /\ UNCHANGED <<bs, addrs>>
    /\ UNCHANGED MISTLocals

\* lines 348-355: the burnt funds actor
MIST_BurntFundsActor ==
    /\ pc = "burntactor"
    /\ \E ok \in BOOLEAN :
         IF ok
         THEN /\ state' = SetActor(state, BurntFundsAddress,
                                   Actor(AccountActorCodeCid, EmptyObject, 0, 0))
              /\ pc' = "accounts"
              /\ UNCHANGED <<err, result>>
         ELSE /\ state' = state
              /\ Abort("set burnt funds account actor")
    /\ UNCHANGED <<bs, addrs>>
    /\ UNCHANGED MISTLocals

\* lines 357-368: one account actor per configured balance
MIST_Accounts ==
    /\ pc = "accounts"
    /\ \/ /\ state' = SetAccounts(state, balances, DOMAIN balances)
          /\ pc' = "flush"
          /\ UNCHANGED <<err, result>>
       \/ \E done \in SUBSET (DOMAIN balances) :
             /\ done # DOMAIN balances
             /\ state' = SetAccounts(state, balances, done)
             /\ Abort("setting account from actmap")
    /\ UNCHANGED <<bs, addrs>>
    /\ UNCHANGED MISTLocals


(***************************************************************************)
(* The execution engine (chain/vm), at its boundary: ApplyMessage of the   *)
(* two storage-market methods, with value 0 and gas price 0.  code is the  *)
(* exit code the engine itself decides on; a message whose preconditions   *)
(* do not hold never exits with 0.                                         *)
(***************************************************************************)
CreateStorageMiner == "CreateStorageMiner"
UpdateStorage == "UpdateStorage"

Message(to, from, method, params, nonce) ==
    [To |-> to, From |-> from, Method |-> method, Params |-> params,
     GasLimit |-> 1000000, GasPrice |-> 0, Value |-> 0, Nonce |-> nonce]

Params(owner, worker, pid, delta) ==
    [Owner |-> owner, Worker |-> worker, PeerID |-> pid, Delta |-> delta]

MarketReady(st) ==
    /\ HasActor(st, StorageMarketAddress)
    /\ st[StorageMarketAddress].Head.kind = "market"

CanApply(st, msg) ==
    /\ HasActor(st, msg.From)
    /\ st[msg.From].Nonce = msg.Nonce
    /\ msg.To = StorageMarketAddress
    /\ MarketReady(st)
    /\ IF msg.Method = CreateStorageMiner
       THEN /\ HasActor(st, InitActorAddress)
            /\ st[InitActorAddress].Head.kind = "init"
            /\ st[InitActorAddress].Head.NextID - ReservedOffset + 1 \in DOMAIN IDNames
       ELSE msg.From \in st[StorageMarketAddress].Head.Miners

BumpNonce(st, a) == SetActor(st, a, [st[a] EXCEPT !.Nonce = @ + 1])

ApplyCreate(st, msg) ==
    LET ias == st[InitActorAddress].Head
        sms == st[StorageMarketAddress].Head
        new == IDAddress(ias.NextID)
        ias2 == [ias EXCEPT !.NextID = @ + 1]
        sms2 == [sms EXCEPT !.Miners = @ \cup {new}]
        body == StorageMinerActorState(msg.Params.Owner, msg.Params.Worker,
                                       msg.Params.PeerID, 0)
        st1 == BumpNonce(st, msg.From)
        st2 == SetActor(st1, InitActorAddress, [st1[InitActorAddress] EXCEPT !.Head = ias2])
        st3 == SetActor(st2, new, Actor(StorageMinerCodeCid, body, 0, 0))
        st4 == SetActor(st3, StorageMarketAddress,
                        [st3[StorageMarketAddress] EXCEPT !.Head = sms2])
    IN [ExitCode |-> 0, Return |-> new, st |-> st4, puts |-> {ias2, sms2, body}]

ApplyUpdate(st, msg) ==
    LET sms == st[StorageMarketAddress].Head
        sms2 == [sms EXCEPT !.TotalStorage = @ + msg.Params.Delta]
        st1 == BumpNonce(st, msg.From)
        st2 == SetActor(st1, StorageMarketAddress,
                        [st1[StorageMarketAddress] EXCEPT !.Head = sms2])
    IN [ExitCode |-> 0, Return |-> "", st |-> st2, puts |-> {sms2}]

ApplyMessage(st, msg, code) ==
    IF code # 0 \/ ~CanApply(st, msg)
    THEN [ExitCode |-> IF code # 0 THEN code ELSE 1, Return |-> "", st |-> st, puts |-> {}]
    ELSE IF msg.Method = CreateStorageMiner THEN ApplyCreate(st, msg)
         ELSE ApplyUpdate(st, msg)

\* what the engine can answer to one call: an error, or an exit code
EngineAnswers == {"get actor error", "apply error", "exit 0", "exit 1"}

\* every message built with nonce 0
MessageNonceZero(act) == 0

\* line 504: Nonce: act.Nonce, of the sender's actor as just read
MessageNonce(act) == act.Nonce

\* doExec without the check of the receipt's exit code
doExecIgnoreExit(st, to, from, method, params, answer) ==
    IF ~HasActor(st, from) \/ answer = "get actor error"
    THEN [err |-> "doExec failed to get from actor", called |-> FALSE, nonce |-> 0,
          answered |-> FALSE, code |-> 0, ret |-> "", st |-> st, puts |-> {}]
    ELSE LET act == st[from]
             ret == ApplyMessage(st, Message(to, from, method, params, MessageNonce(act)),
                                 IF answer = "exit 0" THEN 0 ELSE 1)
         IN IF answer = "apply error"
            THEN [err |-> "doExec apply message failed", called |-> TRUE, nonce |-> MessageNonce(act),
                  answered |-> FALSE, code |-> 0, ret |-> "", st |-> st, puts |-> {}]
            ELSE [err |-> "", called |-> TRUE, nonce |-> MessageNonce(act),
                  answered |-> TRUE, code |-> ret.ExitCode,
                  ret |-> ret.Return, st |-> ret.st, puts |-> ret.puts]

(***************************************************************************)
(* doExec (lines 490-515).  answer is what the state tree and the engine   *)
(* answer on this call.                                                    *)
(***************************************************************************)
doExec(st, to, from, method, params, answer) ==
    IF ~HasActor(st, from) \/ answer = "get actor error"
    THEN [err |-> "doExec failed to get from actor", called |-> FALSE, nonce |-> 0,
          answered |-> FALSE, code |-> 0, ret |-> "", st |-> st, puts |-> {}]
    ELSE LET act == st[from]
             ret == ApplyMessage(st, Message(to, from, method, params, MessageNonce(act)),
                                 IF answer = "exit 0" THEN 0 ELSE 1)
         IN IF answer = "apply error"
            THEN [err |-> "doExec apply message failed", called |-> TRUE, nonce |-> MessageNonce(act),
                  answered |-> FALSE, code |-> 0, ret |-> "", st |-> st, puts |-> {}]
            ELSE IF ret.ExitCode # 0
            THEN [err |-> "failed to call method", called |-> TRUE, nonce |-> MessageNonce(act),
                  answered |-> TRUE, code |-> ret.ExitCode,
                  ret |-> "", st |-> st, puts |-> {}]
            ELSE [err |-> "", called |-> TRUE, nonce |-> MessageNonce(act),
                  answered |-> TRUE, code |-> ret.ExitCode,
                  ret |-> ret.Return, st |-> ret.st, puts |-> ret.puts]

\* address.NewFromBytes accepts the bytes of an address, and not the empty return
IsAddress(bytes) == bytes # ""

(***************************************************************************)
(* MakeGenesisBlock's flush of the initial tree, then SetupStorageMiners.  *)
(***************************************************************************)
\* StateTree.Flush / vm.Flush: the tree's nodes and the buffered objects are stored
FlushTo(store, st, buffered) ==
    [store EXCEPT !.trees = @ \cup {st}, !.objs = @ \cup buffered]

\* an error return of SetupStorageMiners: the root it returns is cid.Undef
SSMAbort(e) == Abort(e) /\ stateroot' = Undef

\* lines 525-528
MGB_Flush ==
    /\ pc = "flush"
    /\ \E ok \in BOOLEAN :
         IF ok
         THEN /\ stateroot' = RootOf(state)
              /\ bs' = FlushTo(bs, state, {})
              /\ pc' = "newvm"
              /\ UNCHANGED <<err, result>>
         ELSE /\ UNCHANGED <<stateroot, bs>>
              /\ Abort("flush state tree failed")
    /\ UNCHANGED <<balances, gmcfg, ts, addrs, state, vmst, vmbuf, i, maddr, calls, exitcode, sent,
                   given, givenbal, first, flushes, hvars>>

\* lines 419-422: the vm loads the state tree the root identifies
SSM_NewVM ==
    /\ pc = "newvm"
    /\ \E ok \in BOOLEAN :
         IF ok /\ stateroot.def /\ stateroot.tree \in bs.trees
         THEN /\ vmst' = stateroot.tree
              /\ vmbuf' = {}
              /\ i' = 0
              /\ pc' = "loop"
              /\ UNCHANGED <<stateroot, err, result>>
         ELSE /\ UNCHANGED <<vmst, vmbuf, i>>
              /\ SSMAbort("failed to create NewVM")
    /\ UNCHANGED <<balances, gmcfg, ts, bs, addrs, state, maddr, calls, exitcode, sent, given, givenbal, first, flushes, hvars>>

\* lines 424-446 for the configuration entry at position k (1-based)
\* the new address recorded among the owners of the configuration
RecordMinerAsOwner(cfg, m) == [cfg EXCEPT !.Owners = Append(@, m)]

\* line 446: gmcfg.MinerAddrs = append(gmcfg.MinerAddrs, maddr)
RecordMiner(cfg, m) == [cfg EXCEPT !.MinerAddrs = Append(@, m)]

SSM_CreateMinerAt(k) ==
    /\ pc = "loop"
    /\ i < Len(gmcfg.Workers)
    /\ IF i >= Len(gmcfg.Owners) \/ i >= Len(gmcfg.PeerIDs)
       THEN \* gmcfg.Owners[i] or gmcfg.PeerIDs[i]: index out of range
            /\ pc' = "panic"
            /\ UNCHANGED <<gmcfg, stateroot, vmst, vmbuf, maddr, calls, exitcode, sent, err, result>>
       ELSE \E answer \in EngineAnswers :
              LET owner == gmcfg.Owners[k]
                  worker == gmcfg.Workers[k]
                  pid == gmcfg.PeerIDs[k]
                  r == doExec(vmst, StorageMarketAddress, owner, CreateStorageMiner,
                              Params(owner, worker, pid, 0), answer)
              IN /\ calls' = IF r.called THEN calls + 1 ELSE calls
                 /\ exitcode' = IF r.answered THEN r.code ELSE exitcode
                 /\ sent' = IF r.called THEN [From |-> owner, Nonce |-> r.nonce] ELSE sent
                 /\ IF r.err # ""
                    THEN /\ SSMAbort("failed to create genesis miner")
                         /\ UNCHANGED <<gmcfg, vmst, vmbuf, maddr>>
                    ELSE IF ~IsAddress(r.ret)
                    THEN /\ SSMAbort("address.NewFromBytes")
                         /\ UNCHANGED <<gmcfg, vmst, vmbuf, maddr>>
                    ELSE /\ maddr' = r.ret
                         /\ gmcfg' = RecordMiner(gmcfg, r.ret)
                         /\ vmst' = r.st
                         /\ vmbuf' = vmbuf \cup r.puts
                         /\ pc' = "update"
                         /\ UNCHANGED <<stateroot, err, result>>
    /\ UNCHANGED <<balances, ts, bs, addrs, state, i, given, givenbal, first, flushes, hvars>>

\* the loop body reading entry 0 of the configuration for every miner
SSM_CreateMinerFirstEntry ==
    SSM_CreateMinerAt(1)

\* lines 424-446: the loop head and the "create storage miner" message of
\* miner i (Owners[i], Workers[i], PeerIDs[i])
SSM_CreateMiner ==
    SSM_CreateMinerAt(i + 1)

\* lines 448-453: the "update storage" message of the new miner
\* an update message that announces no storage
UpdateStorageParamsNoDelta == Params("", "", "", 0)

\* line 448: actors.UpdateStorageParams{Delta: types.NewInt(5000)}
UpdateStorageParams == Params("", "", "", BootstrapPower)

SSM_UpdateStorage ==
    /\ pc = "update"
    /\ \E answer \in EngineAnswers :
         LET r == doExec(vmst, StorageMarketAddress, maddr, UpdateStorage,
                         UpdateStorageParams, answer)
         IN /\ calls' = IF r.called THEN calls + 1 ELSE calls
            /\ exitcode' = IF r.answered THEN r.code ELSE exitcode
            /\ sent' = IF r.called THEN [From |-> maddr, Nonce |-> r.nonce] ELSE sent
            /\ IF r.err # ""
               THEN /\ SSMAbort("failed to update total storage")
                    /\ UNCHANGED <<vmst, vmbuf>>
               ELSE /\ vmst' = r.st
                    /\ vmbuf' = vmbuf \cup r.puts
                    /\ pc' = "vmflush"
                    /\ UNCHANGED <<stateroot, err, result>>
    /\ UNCHANGED <<balances, gmcfg, ts, bs, addrs, state, i, maddr, given, givenbal, first, flushes, hvars>>

\* the loop without its flush: the patch follows the two messages directly
SSM_FlushVMSkipped ==
    /\ pc = "vmflush"
    /\ pc' = "patch"
    /\ UNCHANGED <<balances, gmcfg, ts, bs, addrs, state, stateroot, vmst, vmbuf, i, maddr,
                   calls, exitcode, sent, flushes, given, givenbal, err, result, first, hvars>>

\* lines 458-460: the per-miner flush of the vm
SSM_FlushVM ==
    /\ pc = "vmflush"
    /\ \E ok \in BOOLEAN :
         IF ok
         THEN /\ bs' = FlushTo(bs, vmst, vmbuf)
              /\ flushes' = flushes + 1
              /\ vmbuf' = {}
              /\ pc' = "patch"
              /\ UNCHANGED <<stateroot, err, result>>
         ELSE /\ UNCHANGED <<bs, vmbuf, flushes>>
              /\ SSMAbort("vm.Flush failed")
    /\ UNCHANGED <<balances, gmcfg, ts, addrs, state, vmst, i, maddr, calls, exitcode, sent, given, givenbal, first, hvars>>

\* the actor record written back without "mact.Head = nstate"
PatchedActorStaleHead(mact, nstate) == mact

\* a new actor record for the miner instead of the one read back
PatchedActorFresh(mact, nstate) == Actor(StorageMinerCodeCid, nstate, 0, 0)

\* line 480: the actor record points at the patched state body
PatchedActor(mact, nstate) == [mact EXCEPT !.Head = nstate]

\* lines 462-485: the miner's state body is read back, its power overwritten,
\* the body stored and the actor's head replaced; then the next miner
SSM_PatchPower ==
    /\ pc = "patch"
    /\ \E outcome \in {"ok", "get actor", "get state", "put", "set actor"} :
         IF ~HasActor(vmst, maddr) \/ outcome = "get actor"
         THEN /\ SSMAbort("get miner actor failed")
              /\ UNCHANGED <<bs, vmst, i>>
         ELSE LET mact == vmst[maddr]
                  mstate == [mact.Head EXCEPT !.Power = BootstrapPower]
              IN IF ~Has(bs, mact.Head) \/ mact.Head.kind # "miner" \/ outcome = "get state"
                 THEN /\ SSMAbort("getting miner actor state failed")
                      /\ UNCHANGED <<bs, vmst, i>>
                 ELSE IF outcome = "put"
                 THEN /\ SSMAbort("put miner state")
                      /\ UNCHANGED <<bs, vmst, i>>
                 ELSE IF outcome = "set actor"
                 THEN /\ SSMAbort("set miner actor")
                      /\ bs' = Put(bs, mstate)
                      /\ UNCHANGED <<vmst, i>>
                 ELSE /\ bs' = Put(bs, mstate)
                      /\ vmst' = SetActor(vmst, maddr, PatchedActor(mact, mstate))
                      /\ i' = i + 1
                      /\ pc' = "loop"
                      /\ UNCHANGED <<stateroot, err, result>>
    /\ UNCHANGED <<balances, gmcfg, ts, addrs, state, vmbuf, maddr, calls, exitcode, sent, given, givenbal, first, flushes, hvars>>

\* line 487: the flush after the last miner, whose root is returned
SSM_FinalFlush ==
    /\ pc = "loop"
    /\ i >= Len(gmcfg.Workers)
    /\ \E ok \in BOOLEAN :
         IF ok
         THEN /\ bs' = FlushTo(bs, vmst, vmbuf)
              /\ flushes' = flushes + 1
              /\ vmbuf' = {}
              /\ stateroot' = RootOf(vmst)
              /\ pc' = "msgmeta"
              /\ UNCHANGED <<err, result>>
         ELSE /\ UNCHANGED <<bs, vmbuf, flushes>>
              /\ SSMAbort("vm.Flush failed")
    /\ UNCHANGED <<balances, gmcfg, ts, addrs, state, vmst, i, maddr, calls, exitcode, sent, given, givenbal, first, hvars>>


(***************************************************************************)
(* Block assembly (lines 537-590).                                         *)
(***************************************************************************)
\* a header that references the initial state tree, as flushed before the
\* miners were set up
GenesisHeaderPreMiner(root, t) ==
    BlockHeader(InitActorAddress, RootOf(state), MsgMeta(EmptyRoot, EmptyRoot), EmptyRoot, t)

\* lines 564-577: the genesis block header
GenesisHeader(root, t) ==
    BlockHeader(InitActorAddress, root, MsgMeta(EmptyRoot, EmptyRoot), EmptyRoot, t)

\* the header stored first, before the message meta block is built and put
MGB_MsgMetaAfterHeader ==
    /\ pc = "msgmeta"
    /\ LET stored == [bs EXCEPT !.headers = @ \cup {GenesisHeader(stateroot, ts)}] IN
       \E outcome \in {"ok", "sharray build failed", "serializing msgmeta failed",
                       "putting msgmeta block to blockstore"} :
         CASE outcome = "ok" ->
                /\ bs' = [Put(stored, EmptyRoot) EXCEPT
                             !.metas = @ \cup {MsgMeta(EmptyRoot, EmptyRoot)}]
                /\ pc' = "header"
                /\ UNCHANGED <<err, result>>
           [] outcome = "sharray build failed" ->
                /\ bs' = stored
                /\ Abort(outcome)
           [] OTHER ->
                /\ bs' = Put(stored, EmptyRoot)
                /\ Abort(outcome)
    /\ UNCHANGED <<balances, gmcfg, ts, addrs, state, stateroot, vmst, vmbuf, i, maddr,
                   calls, exitcode, sent, given, givenbal, first, flushes, hvars>>

\* lines 537-554: the empty sharray root and the message meta block
MGB_MsgMeta ==
    /\ pc = "msgmeta"
    /\ \E outcome \in {"ok", "sharray build failed", "serializing msgmeta failed",
                       "putting msgmeta block to blockstore"} :
         CASE outcome = "ok" ->
                /\ bs' = [Put(bs, EmptyRoot) EXCEPT
                             !.metas = @ \cup {MsgMeta(EmptyRoot, EmptyRoot)}]
                /\ pc' = "header"
                /\ UNCHANGED <<err, result>>
           [] outcome = "sharray build failed" ->
                /\ bs' = bs
                /\ Abort(outcome)
           [] OTHER ->
                /\ bs' = Put(bs, EmptyRoot)
                /\ Abort(outcome)
    /\ UNCHANGED <<balances, gmcfg, ts, addrs, state, stateroot, vmst, vmbuf, i, maddr,
                   calls, exitcode, sent, given, givenbal, first, flushes, hvars>>

\* lines 579-590: the header is stored and returned
MGB_PutHeader ==
    /\ pc = "header"
    /\ \E outcome \in {"ok", "serializing block header failed",
                       "putting header to blockstore"} :
         IF outcome = "ok"
         THEN /\ bs' = [bs EXCEPT !.headers = @ \cup {GenesisHeader(stateroot, ts)}]
              /\ result' = [ok |-> TRUE, Genesis |-> GenesisHeader(stateroot, ts)]
              /\ pc' = "done"
              /\ err' = err
         ELSE /\ bs' = bs
              /\ Abort(outcome)
    /\ UNCHANGED <<balances, gmcfg, ts, addrs, state, stateroot, vmst, vmbuf, i, maddr,
                   calls, exitcode, sent, given, givenbal, first, flushes, hvars>>

(***************************************************************************)
(* The caller: one construction, and a second one on the same balances,    *)
(* miner configuration and timestamp with a fresh blockstore.              *)
(***************************************************************************)
Start ==
    /\ pc = "start"
    /\ bs = EmptyBlockstore
    /\ addrs = <<>>
    /\ state = NoTree
    /\ stateroot = Undef
    /\ vmst = NoTree
    /\ vmbuf = {}
    /\ i = 0
    /\ maddr = ""
    /\ calls = 0
    /\ exitcode = 0
    /\ sent = NoMessage
    /\ flushes = 0
    /\ err = ""
    /\ result = NoResult

\* the health agent is not running while a genesis block is built
AgentIdle ==
    /\ threshold = DefaultThreshold
    /\ interval = DefaultInterval
    /\ headCheckWindow = <<>>
    /\ ch = <<>>
    /\ aCh = <<>>
    /\ hpc = [main |-> "idle", poll |-> "idle", alert |-> "idle"]
    /\ polled = <<>>
    /\ checked = NoCheck
    /\ restarted = FALSE

Init ==
    /\ AgentIdle
    /\ balances \in BalanceMaps
    /\ gmcfg \in MinerCfgs
    /\ given = gmcfg
    /\ givenbal = balances
    /\ ts \in Timestamps
    /\ first = NoResult
    /\ Start

Rerun ==
    /\ pc = "done"
    /\ ~first.ok
    /\ first' = result
    /\ gmcfg' = given
    /\ pc' = "start"
    /\ bs' = EmptyBlockstore
    /\ addrs' = <<>>
    /\ state' = NoTree
    /\ stateroot' = Undef
    /\ vmst' = NoTree
    /\ vmbuf' = {}
    /\ i' = 0
    /\ maddr' = ""
    /\ calls' = 0
    /\ exitcode' = 0
    /\ sent' = NoMessage
    /\ flushes' = 0
    /\ err' = ""
    /\ result' = NoResult
    /\ UNCHANGED <<balances, ts, given, givenbal>>
    /\ UNCHANGED hvars

Next ==
    \/ MIST_EmptyObject
    \/ MIST_CollectAddrs
    \/ MIST_InitActor
    \/ MIST_StorageMarketActor
    \/ MIST_NetworkActor
    \/ MIST_BurntFundsActor
    \/ MIST_Accounts
    \/ MGB_Flush
    \/ SSM_NewVM
    \/ SSM_CreateMiner
    \/ SSM_UpdateStorage
    \/ SSM_FlushVM
    \/ SSM_PatchPower
    \/ SSM_FinalFlush
    \/ MGB_MsgMeta
    \/ MGB_PutHeader
    \/ Rerun

Spec == Init /\ [][Next]_vars

(***************************************************************************)
(* The health agent: the watch-head command (lines 46-179).  A chain head  *)
(* is the list of block identifiers of the tipset ChainHead returns.       *)
(***************************************************************************)
MaxThreshold == 3
MaxPolls == 4

\* the heads a poll may see; one of them has two blocks
Heads == {<<"a">>, <<"b">>, <<"a", "c">>}
Thresholds == 1..MaxThreshold
Intervals == (1..MaxThreshold) \cup {DefaultInterval}

\* the window kept one entry longer than the threshold
appendCIDsToWindowKeepOneMore(w, c, t) ==
    LET offset == Len(w) - t
    IN IF offset >= 0 THEN Append(SubSeq(w, offset + 1, Len(w)), c)
       ELSE Append(w, c)

\* lines 173-179
appendCIDsToWindow(w, c, t) ==
    LET offset == Len(w) - t + 1
    IN IF offset >= 0 THEN Append(SubSeq(w, offset + 1, Len(w)), c)
       ELSE Append(w, c)

\* lines 135-151: the labelled loop of checkWindow from index i (counted from
\* 0 as in the source) on; window[next] and window[next-1] of the source are
\* window[next + 1] and window[next] here
RECURSIVE cidWindow(_, _, _, _)
cidWindow(window, t, idx, dup) ==
    IF idx >= Len(window) THEN [dup |-> dup, panic |-> FALSE]
    ELSE LET next == Len(window) - 1 - idx
             cids == window[idx + 1]
         IN IF next >= 1 /\ Len(window[next + 1]) # Len(window[next])
            THEN [dup |-> dup, panic |-> FALSE]
            ELSE LET stop == IF next >= 1
                             THEN {j \in 1..Len(cids) :
                                     IF j > Len(window[next + 1]) THEN TRUE
                                     ELSE window[next + 1][j] # window[next][j]}
                             ELSE {}
                 IN IF stop # {}
                    THEN LET j == CHOOSE x \in stop : \A y \in stop : x <= y
                         IN \* window[next][j] with j past the end: index out of range
                            [dup |-> dup, panic |-> j > Len(window[next + 1])]
                    ELSE cidWindow(window, t, idx + 1,
                                   IF idx < t - 1 THEN dup + 1 ELSE dup)

\* lines 129-160, for the window received from the channel
checkWindow(window, t) ==
    IF Len(window) >= t
    THEN LET r == cidWindow(window, t, 0, 0)
         IN IF r.panic THEN "panic"
            ELSE IF r.dup = t - 1 THEN "false"
            ELSE "true"
    ELSE "true"

\* the process lives until the action returns, a goroutine calls log.Fatal or
\* os.Exit, or a goroutine panics
Running ==
    /\ hpc.main \in {"check", "return"}
    /\ hpc.poll \in {"poll", "sleep"}
    /\ hpc.alert \in {"wait", "restart"}

\* lines 93 and 162-171: one call of updateWindow by the polling goroutine
updateWindow ==
    /\ Running
    /\ hpc.poll = "poll"
    /\ \/ /\ hpc' = [hpc EXCEPT !.poll = "fatal"]
          /\ UNCHANGED <<headCheckWindow, ch, polled>>
       \/ /\ Len(polled) < MaxPolls
          /\ Len(ch) < 1
          /\ \E head \in Heads :
               LET window == appendCIDsToWindow(headCheckWindow, head, threshold)
               IN /\ ch' = Append(ch, window)
                  /\ headCheckWindow' = window
                  /\ polled' = Append(polled, head)
          /\ hpc' = [hpc EXCEPT !.poll = "sleep"]
    /\ UNCHANGED <<threshold, interval, aCh, checked, restarted>>
    /\ UNCHANGED gvars

\* line 97: time.Sleep(interval * time.Second)
Sleep ==
    /\ Running
    /\ hpc.poll = "sleep"
    /\ hpc' = [hpc EXCEPT !.poll = "poll"]
    /\ UNCHANGED <<threshold, interval, headCheckWindow, ch, aCh, polled, checked, restarted>>
    /\ UNCHANGED gvars

\* lines 116-124: one turn of the action's loop; checkWindow receives a window
\* and is given int(interval) as its t; an unhealthy verdict sends on the
\* alert channel and leaves the loop
MainLoop ==
    /\ Running
    /\ hpc.main = "check"
    /\ Len(ch) = 1
    /\ LET window == Head(ch)
           ok == checkWindow(window, interval)
       IN /\ ch' = Tail(ch)
          /\ checked' = [window |-> window, t |-> interval, ok |-> ok, n |-> checked.n + 1]
          /\ CASE ok = "panic" ->
                    /\ hpc' = [hpc EXCEPT !.main = "panic"]
                    /\ aCh' = aCh
               [] ok = "false" ->
                    /\ Len(aCh) < 1
                    /\ aCh' = Append(aCh, "nil")
                    /\ hpc' = [hpc EXCEPT !.main = "return"]
               [] OTHER ->
                    /\ UNCHANGED <<hpc, aCh>>
    /\ UNCHANGED <<threshold, interval, headCheckWindow, polled, restarted>>
    /\ UNCHANGED gvars

\* lines 125 and 40-43: the action returns nil, app.Run returns, main returns
\* and the process ends with its goroutines
ActionReturn ==
    /\ Running
    /\ hpc.main = "return"
    /\ hpc' = [hpc EXCEPT !.main = "exited"]
    /\ UNCHANGED <<threshold, interval, headCheckWindow, ch, aCh, polled, checked, restarted>>
    /\ UNCHANGED gvars

\* line 103: alertHandler takes the alert from the channel
alertHandler ==
    /\ Running
    /\ hpc.alert = "wait"
    /\ Len(aCh) = 1
    /\ aCh' = Tail(aCh)
    /\ hpc' = [hpc EXCEPT !.alert = "restart"]
    /\ UNCHANGED <<threshold, interval, headCheckWindow, ch, polled, checked, restarted>>
    /\ UNCHANGED gvars

\* lines 103-111: alertHandler has asked for the restart of the unit and
\* returns; any outcome ends the process (log.Fatal, or os.Exit(130))
Restart ==
    /\ Running
    /\ hpc.alert = "restart"
    /\ restarted' = TRUE
    /\ \E outcome \in {"done", "failed", "error"} :
         hpc' = [hpc EXCEPT !.alert = IF outcome = "done" THEN "exit130" ELSE "fatal"]
    /\ UNCHANGED <<threshold, interval, headCheckWindow, ch, aCh, polled, checked>>
    /\ UNCHANGED gvars

\* no genesis block is being built inside the health agent
NoGenesis ==
    /\ balances = NoMap
    /\ gmcfg = [Owners |-> <<>>, Workers |-> <<>>, PeerIDs |-> <<>>, MinerAddrs |-> <<>>]
    /\ given = gmcfg
    /\ givenbal = balances
    /\ ts = 0
    /\ first = NoResult
    /\ Start

\* lines 70-89: the flags are read, the window is empty, the channels are made
\* and the goroutines started
InitHealth ==
    /\ NoGenesis
    /\ threshold \in Thresholds
    /\ interval \in Intervals
    /\ headCheckWindow = <<>>
    /\ ch = <<>>
    /\ aCh = <<>>
    /\ hpc = [main |-> "check", poll |-> "poll", alert |-> "wait"]
    /\ polled = <<>>
    /\ checked = NoCheck
    /\ restarted = FALSE

NextHealth ==
    \/ updateWindow
    \/ Sleep
    \/ MainLoop
    \/ ActionReturn
    \/ alertHandler
    \/ Restart

SpecHealth == InitHealth /\ [][NextHealth]_vars


(***************************************************************************)
(* Properties.                                                             *)
(***************************************************************************)
Range(q) == {q[k] : k \in DOMAIN q}

\* the configured balances add up to more than the total supply
OverCommitted == SumOver(balances, DOMAIN balances) > TotalFilecoin

\* a balance is configured for an address a built-in actor already lives at
ReservedAddresses ==
    {InitActorAddress, StorageMarketAddress, NetworkAddress, BurntFundsAddress}
Collides == DOMAIN balances \cap ReservedAddresses # {}

\* the owners, workers and peer-ID lists differ in length
Mismatched ==
    ~(Len(given.Owners) = Len(given.Workers) /\ Len(given.Workers) = Len(given.PeerIDs))

\* the actors of a tree that run the account code
AccountActors(st) == {a \in DOMAIN st : st[a].Code = AccountActorCodeCid}

RECURSIVE SumBalances(_, _)
SumBalances(st, S) ==
    IF S = {} THEN 0
    ELSE LET a == CHOOSE x \in S : TRUE IN st[a].Balance + SumBalances(st, S \ {a})

\* C1: two constructions on the same balances, miner configuration and
\* timestamp return the same genesis header, hence the same state root and the
\* same block identifier (and the same address-to-ID map inside that root).
C1_Determinism ==
    (pc = "done" /\ first.ok) => result.Genesis = first.Genesis

\* C2: after a successful construction the balances of the account actors
\* (configured accounts, network reserve, burnt funds) add up to the total
\* supply, and the burnt-funds actor holds 0.
C2_SupplyConservation ==
    pc = "done" =>
        LET st == result.Genesis.StateRoot.tree
        IN /\ SumBalances(st, AccountActors(st)) = TotalFilecoin
           /\ st[BurntFundsAddress].Balance = 0

\* C3: with balances that exceed the total supply the construction never
\* succeeds and never writes to the blockstore.
C3_FailFastOverCommit ==
    OverCommitted => (bs = EmptyBlockstore /\ pc # "done")

\* C4: whenever the loop is about to handle miner i, the engine's state holds,
\* for each miner j < i in configuration order, a miner actor owned by
\* Owners[j] that is registered in the storage market and has the bootstrap
\* power, and the market's total storage counts one delta per earlier miner.
C4_MinerOrdering ==
    pc = "loop" =>
        /\ Len(gmcfg.MinerAddrs) = i
        /\ Cardinality(Range(gmcfg.MinerAddrs)) = i
        /\ vmst[StorageMarketAddress].Head.Miners = Range(gmcfg.MinerAddrs)
        /\ vmst[StorageMarketAddress].Head.TotalStorage = 5000 * i
        /\ \A j \in 1..i :
             LET m == gmcfg.MinerAddrs[j]
             IN /\ HasActor(vmst, m)
                /\ vmst[m].Code = StorageMinerCodeCid
                /\ vmst[m].Head.Owner = gmcfg.Owners[j]
                /\ vmst[m].Head.Worker = gmcfg.Workers[j]
                /\ vmst[m].Head.PeerID = gmcfg.PeerIDs[j]
                /\ vmst[m].Head.Power = 5000

\* C4 witness: the second miner's create message has been applied, for two
\* miners with different owners.
C4_Witness ==
    /\ pc = "update"
    /\ i = 1
    /\ Len(gmcfg.MinerAddrs) = 2
    /\ gmcfg.Owners[1] # gmcfg.Owners[2]

\* C5: once the engine has answered a message with a non-zero exit code, the
\* construction has returned an error: the root of SetupStorageMiners is
\* undefined, no genesis is returned or stored, and nothing more is executed.
C5_ExitCodeFatal ==
    exitcode # 0 =>
        /\ pc = "error"
        /\ stateroot = Undef
        /\ result = NoResult
        /\ bs.headers = {}
        /\ ~ENABLED Next

\* C5 witness: the update-storage message of the first of two miners exits
\* with a non-zero code.
C5_Witness ==
    /\ exitcode # 0
    /\ pc = "error"
    /\ err = "failed to update total storage"
    /\ i = 0
    /\ Len(gmcfg.Workers) = 2

\* C6: in the state the returned genesis root identifies, every miner created
\* from the configuration has power 5000, and its state body is stored.
C6_MinerPower ==
    pc = "done" =>
        LET st == result.Genesis.StateRoot.tree
        IN /\ result.Genesis.StateRoot.def
           /\ st \in bs.trees
           /\ Len(gmcfg.MinerAddrs) = Len(gmcfg.Workers)
           /\ \A j \in 1..Len(gmcfg.MinerAddrs) :
                LET m == gmcfg.MinerAddrs[j]
                IN /\ HasActor(st, m)
                   /\ st[m].Head.Power = 5000
                   /\ Has(bs, st[m].Head)

\* C6 witness: a construction with two miners has succeeded.
C6_Witness == pc = "done" /\ Len(gmcfg.MinerAddrs) = 2

\* C7: the init actor built from the sequence addrs maps exactly the input
\* addresses, the i-th (0-based) to 100 + i, IDs pairwise different, and its
\* NextID is 100 + the number of addresses.
C7_InitActorIDs ==
    pc = "marketactor" =>
        LET ias == state[InitActorAddress].Head
        IN /\ state[InitActorAddress].Code = InitActorCodeCid
           /\ DOMAIN ias.AddressMap = Range(addrs)
           /\ \A k \in 1..Len(addrs) : ias.AddressMap[addrs[k]] = 100 + (k - 1)
           /\ \A a, b \in DOMAIN ias.AddressMap :
                a # b => ias.AddressMap[a] # ias.AddressMap[b]
           /\ ias.NextID = 100 + Len(addrs)
           /\ Has(bs, ias)
           /\ Has(bs, HamtNode(ias.AddressMap))

\* C7 witness: the init actor has been set up for three addresses.
C7_Witness == pc = "marketactor" /\ Len(addrs) = 3

\* C8: a configuration with a balance under a reserved address never gets
\* past the account actors: the construction fails instead of replacing the
\* built-in actor.
C8_NoSilentOverwrite ==
    Collides => pc \in {"start", "addrs", "initactor", "marketactor",
                        "networkactor", "burntactor", "accounts", "error"}

\* C9: a miner configuration with lists of different lengths never succeeds,
\* and no state-map write or engine call is made for it.
C9_RejectMismatched ==
    Mismatched => (state = NoTree /\ vmst = NoTree /\ calls = 0 /\ pc # "done")

\* C10: a genesis header is in the blockstore only once everything before it
\* has succeeded and the construction has returned it; after an error return
\* (or a panic) no header is stored and no GenesisBootstrap is returned.
C10_AllOrNothing ==
    /\ bs.headers # {} =>
         /\ pc = "done"
         /\ result.ok
         /\ bs.headers = {result.Genesis}
         /\ state \in bs.trees
         /\ result.Genesis.StateRoot = stateroot
         /\ stateroot.def /\ stateroot.tree \in bs.trees
         /\ MsgMeta(EmptyRoot, EmptyRoot) \in bs.metas
    /\ pc \in {"error", "panic"} => (bs.headers = {} /\ result = NoResult)
    /\ pc = "error" <=> err # ""
    /\ result.ok <=> pc = "done"

\* C10 witness: the very last step, the put of the header, has failed.
C10_Witness == pc = "error" /\ err = "putting header to blockstore"

\* C11: on success the returned header has height 0, no parents, parent
\* weight 0, the caller's timestamp, and as state root the root of the miner
\* bootstrap's final flush, which is the root of the engine's state and, once
\* a miner was created, differs from the root of the initial state tree
C11_GenesisHeader ==
    pc = "done" =>
        /\ result.ok
        /\ result.Genesis.Height = 0
        /\ result.Genesis.Parents = <<>>
        /\ result.Genesis.ParentWeight = 0
        /\ result.Genesis.Timestamp = ts
        /\ result.Genesis.StateRoot = RootOf(vmst)
        /\ result.Genesis.StateRoot = stateroot
        /\ gmcfg.MinerAddrs # <<>> => result.Genesis.StateRoot # RootOf(state)
        /\ vmst \in bs.trees
        /\ result.Genesis \in bs.headers

C11_Witness ==
    /\ pc = "done"
    /\ ts = 8
    /\ Len(gmcfg.MinerAddrs) = 1
    /\ result.Genesis.StateRoot # RootOf(state)

\* C12: when a miner's state is read back and patched, both of its messages
\* have been applied and the engine has been flushed since (nothing is
\* buffered, the tree and the miner's state body are in the blockstore);
\* there is one flush per patched miner, and exactly one more after the last
\* patch, whose root is the state root returned
C12_FlushOrder ==
    /\ pc = "patch" =>
          /\ calls = 2 * (i + 1)
          /\ flushes = i + 1
          /\ vmbuf = {}
          /\ vmst \in bs.trees
          /\ HasActor(vmst, maddr)
          /\ Has(bs, vmst[maddr].Head)
    /\ pc = "loop" => flushes = i
    /\ pc \in {"update", "vmflush"} => flushes = i /\ vmbuf # {}
    /\ pc \in {"msgmeta", "header", "done"} =>
          /\ i = Len(gmcfg.Workers)
          /\ flushes = i + 1
          /\ calls = 2 * i
          /\ vmbuf = {}
          /\ stateroot = RootOf(vmst)
          /\ vmst \in bs.trees

\* C13 as stated: the balances and the whole miner configuration are as the
\* caller passed them, at every point of the construction
C13_ImmutableInput ==
    /\ balances = givenbal
    /\ gmcfg = given

\* C13, amended: the balances and the owners, workers and peer IDs of the
\* miner configuration are never changed; MinerAddrs is an output, extended
\* by the address of each miner created, in creation order, and it keeps
\* those entries when the construction fails later
C13_InputsButMinerAddrs ==
    /\ balances = givenbal
    /\ gmcfg.Owners = given.Owners
    /\ gmcfg.Workers = given.Workers
    /\ gmcfg.PeerIDs = given.PeerIDs
    /\ Len(gmcfg.MinerAddrs) >= Len(given.MinerAddrs)
    /\ SubSeq(gmcfg.MinerAddrs, 1, Len(given.MinerAddrs)) = given.MinerAddrs
    /\ pc \in {"update", "vmflush", "patch"} =>
          /\ Len(gmcfg.MinerAddrs) = Len(given.MinerAddrs) + i + 1
          /\ gmcfg.MinerAddrs[Len(gmcfg.MinerAddrs)] = maddr
    /\ pc \in {"loop", "msgmeta", "header", "done"} =>
          Len(gmcfg.MinerAddrs) = Len(given.MinerAddrs) + i
    /\ \A k \in 1..Len(gmcfg.MinerAddrs) :
          /\ HasActor(vmst, gmcfg.MinerAddrs[k])
          /\ vmst[gmcfg.MinerAddrs[k]].Code = StorageMinerCodeCid

\* an engine failure after a miner was created
C13_Witness ==
    /\ pc = "error"
    /\ err = "failed to update total storage"
    /\ i = 1
    /\ Len(gmcfg.MinerAddrs) = 2

\* a configured balance is negative
HasNegative == \E a \in DOMAIN balances : balances[a] < 0

\* C14: with a negative balance in the configuration the construction never
\* succeeds, never writes to the blockstore, never builds a state tree and
\* never hands a message to the engine
C14_RejectNegative ==
    HasNegative =>
        /\ pc # "done"
        /\ bs = EmptyBlockstore
        /\ state = NoTree
        /\ calls = 0

\* C16: the step that patches a miner's power handles the miner created in
\* this iteration and moves on to the next one; it leaves the set of actors,
\* every other actor, and the miner actor's code, balance and nonce as they
\* were, and the miner's new state body is its old one with only the power
\* replaced by the bootstrap value; nothing else advances the loop
C16_PatchFrame ==
    [][/\ (pc = "patch" /\ pc' = "loop") =>
            /\ maddr = gmcfg.MinerAddrs[i + 1]
            /\ i' = i + 1
            /\ DOMAIN vmst' = DOMAIN vmst
            /\ \A a \in DOMAIN vmst \ {maddr} : vmst'[a] = vmst[a]
            /\ vmst'[maddr].Code = vmst[maddr].Code
            /\ vmst'[maddr].Balance = vmst[maddr].Balance
            /\ vmst'[maddr].Nonce = vmst[maddr].Nonce
            /\ vmst'[maddr].Head = [vmst[maddr].Head EXCEPT !.Power = BootstrapPower]
            /\ vmst'[maddr].Head \in bs'.objs
       /\ (i' # i /\ pc' # "start") => (pc = "patch" /\ pc' = "loop")
      ]_vars

\* the second miner has been patched, after it sent its update message
C16_Witness ==
    /\ pc = "loop"
    /\ i = 2
    /\ vmst[maddr].Nonce = 1
    /\ vmst[maddr].Head.Power = BootstrapPower
    /\ maddr = gmcfg.MinerAddrs[2]

\* C19: a message handed to the engine comes from an actor of the engine's
\* current state and carries that actor's current nonce; at the head of the
\* loop every owner's nonce is the number of miners it has created so far and
\* every created miner's nonce is 1, so no message is stale; an owner without
\* an actor makes the construction fail with no message handed over
C19_MessageNonce ==
    [][/\ calls' = calls + 1 =>
            /\ HasActor(vmst, sent'.From)
            /\ sent'.Nonce = vmst[sent'.From].Nonce
       /\ pc = "loop" =>
            /\ \A a \in Range(gmcfg.Owners) :
                  HasActor(vmst, a) =>
                     vmst[a].Nonce =
                        Cardinality({j \in 1..i : j <= Len(gmcfg.Owners) /\ gmcfg.Owners[j] = a})
            /\ \A j \in 1..i : vmst[gmcfg.MinerAddrs[j]].Nonce = 1
       /\ ( /\ pc = "loop" /\ pc' \notin {"loop", "panic"}
            /\ i < Len(gmcfg.Workers) /\ i < Len(gmcfg.Owners)
            /\ ~HasActor(vmst, gmcfg.Owners[i + 1]) ) =>
            /\ pc' = "error"
            /\ calls' = calls
            /\ vmst' = vmst
      ]_vars

\* one owner has created two miners, with nonces 0 and 1
C19_Witness ==
    /\ pc = "done"
    /\ gmcfg.Owners = <<"A", "A">>
    /\ HasActor(vmst, "A")
    /\ vmst["A"].Nonce = 2
    /\ calls = 4

\* the actors of a tree that run the storage miner code
MinerActors(st) == {a \in DOMAIN st : st[a].Code = StorageMinerCodeCid}

RECURSIVE SumPower(_, _)
SumPower(st, S) ==
    IF S = {} THEN 0
    ELSE LET a == CHOOSE x \in S : TRUE IN st[a].Head.Power + SumPower(st, S \ {a})

LastOf(q, m) == SubSeq(q, Len(q) - m + 1, Len(q))

\* the head has been the same across t consecutive polls: the window holds t
\* heads, all identical
Stalled(w, t) == Len(w) >= t /\ \A k \in 1..Len(w) : w[k] = w[Len(w)]

\* the head changed between every two consecutive polls of the window
Changing(w) == Len(w) >= 2 /\ \A k \in 1..(Len(w) - 1) : w[k] # w[k + 1]

\* the main loop has sent on the alert channel and left its loop
Alerted == hpc.main \in {"return", "exited"}

\* C15: for the last window the main loop checked, a head identical across
\* threshold consecutive polls gives the verdict false and the alert, and a
\* head that changed between all polls of the window gives the verdict true
C15_ThresholdGoverns ==
    checked.n > 0 =>
        /\ Stalled(checked.window, threshold) => (checked.ok = "false" /\ Alerted)
        /\ Changing(checked.window) => checked.ok = "true"

\* C17: when the action has returned and the process ended, the alert it
\* sent has been taken from the channel and the restart has been asked for
C17_AlertDelivered ==
    hpc.main = "exited" => (aCh = <<>> /\ restarted)

\* C18: the polling goroutine's window is never longer than the threshold and
\* holds the most recent min(n, threshold) polled heads in poll order, n
\* being the number of polls so far; a window waiting in the channel is the
\* one just built
C18_WindowBound ==
    LET n == Len(polled)
        m == IF n < threshold THEN n ELSE threshold
    IN /\ Len(headCheckWindow) <= threshold
       /\ Len(headCheckWindow) = m
       /\ headCheckWindow = LastOf(polled, m)
       /\ \A k \in 1..Len(ch) : ch[k] = headCheckWindow

\* more polls than the threshold, and the oldest ones have left the window
C18_Witness ==
    /\ threshold = 2
    /\ Len(polled) = MaxPolls
    /\ polled[1] # polled[3]
    /\ headCheckWindow = <<polled[3], polled[4]>>

C12_Witness == pc = "done" /\ flushes = 3 /\ gmcfg.Owners = <<"A", "B">>


====
